---------------------------- MODULE Spec2Model ----------------------------
(***************************************************************************)
(* Model of backend/main.py: the /extract request handler and the layout   *)
(* clustering it runs (tokens -> lines -> paragraphs).                      *)
(*                                                                         *)
(* Numbers.  Coordinates are integers.  The thresholds of the code are     *)
(* products of a median with 0.25, 0.3 and 1.5; a median of integers is an *)
(* integer or a half, so the model carries twice the median (an integer)   *)
(* and compares by cross-multiplication:                                   *)
(*    left <= right + 0.3*m      <=>  20*left <= 20*right + 3*(2m)         *)
(*    int(top / (0.25*m))         =   trunc(8*top / (2m))                  *)
(*    gap  <= 1.5*m              <=>  4*gap <= 3*(2m)                      *)
(* Text.  A text is the sequence of its words; ' '.join and                *)
(* += ' ' + text are concatenation of word sequences.                      *)
(* Identity.  A token's uuid4 id is modelled by its position in            *)
(* extracted_data, which is also how the model refers to the dict object   *)
(* that the code mutates in place.                                         *)
(***************************************************************************)
EXTENDS Integers, Sequences, FiniteSets, Bags, TLC

\* ------------------------------------------------------------------ bounds
\* most tokens one request appends to extracted_data
MaxTokens == 3
\* most pages of the document (len(doc))
MaxPages == 2

\* ------------------------------------------------------------------ inputs
Box(l, t, r, b) == <<l, t, r, b>>

\* page.get_text("words"): the words (x0, y0, x1, y1, text) a page can hold.
\* Heights are 10 and 20, so that the thresholds fall on the grid: with a
\* median of 10 the horizontal tolerance is 3 and the paragraph gap 15.
\* One word lies inside another, one starts above the page (top < 0), one
\* has no extent in y.
PageWords ==
    { [text |-> <<"a">>, bbox |-> Box(0, 2, 10, 12)],
      [text |-> <<"b">>, bbox |-> Box(0, 0, 10, 10)],
      [text |-> <<"a">>, bbox |-> Box(2, 0, 5, 10)],
      [text |-> <<"a">>, bbox |-> Box(13, -2, 23, 8)],
      [text |-> <<"b">>, bbox |-> Box(14, 0, 24, 20)],
      [text |-> <<"a">>, bbox |-> Box(0, 25, 10, 35)],
      [text |-> <<"b">>, bbox |-> Box(0, 26, 10, 36)],
      [text |-> <<"b">>, bbox |-> Box(30, 0, 40, 0)] }

\* page.rect of every page
PageRect == [width |-> 24, height |-> 40]

\* the pixmap page.get_pixmap() renders: one pixel per point
PixSize == [width |-> 24, height |-> 40]

\* pytesseract.image_to_data rows with non-blank text (left, top, width,
\* height in pixels of the pixmap); the sizes divide the page's, so that the
\* quotients of convert_image_to_pdf_coords are exact
OcrWords ==
    { [text |-> <<"a">>, left |-> 6, top |-> 5, width |-> 12, height |-> 20] }

\* ------------------------------------------------------------------ state
VARIABLES
    pc,                  \* where extract_text stands
    page_num,            \* the page the extraction loop is on
    page_src,            \* how the current page yields tokens: none/words/ocr
    extracted_data,      \* the token dicts, in append order (mutable)
    orig,                \* history: the tokens as they were appended
    ocr_rows,            \* history: the OCR row each token came from, or <<>>
    line_grouped_blocks, \* result of group_text_blocks
    paragraph_blocks,    \* result of group_paragraphs
    formatted_data       \* the response

vars == <<pc, page_num, page_src, extracted_data, orig, ocr_rows,
          line_grouped_blocks, paragraph_blocks, formatted_data>>

\* ------------------------------------------------------------- arithmetic
Min2(a, b) == IF a <= b THEN a ELSE b
Max2(a, b) == IF a >= b THEN a ELSE b

\* int(n / d) for d > 0: Python's int() truncates toward zero
Trunc(n, d) == IF n >= 0 THEN n \div d ELSE -((-n) \div d)

RECURSIVE MinOf(_)
MinOf(s) == IF Len(s) = 1 THEN s[1] ELSE Min2(s[1], MinOf(Tail(s)))

RECURSIVE MaxOf(_)
MaxOf(s) == IF Len(s) = 1 THEN s[1] ELSE Max2(s[1], MaxOf(Tail(s)))

RECURSIVE Concat(_)
Concat(ss) == IF ss = <<>> THEN <<>> ELSE ss[1] \o Concat(Tail(ss))

\* lexicographic <= on pairs, as Python compares tuples
PairLeq(p, q) == p[1] < q[1] \/ (p[1] = q[1] /\ p[2] <= q[2])

\* sorted(xs, key=...) / list.sort(key=...): a stable sort.  An entry is
\* [k |-> the element's key (a pair), x |-> the element]; an entry goes
\* behind every entry whose key is <= its own.
RECURSIVE InsertSorted(_, _)
InsertSorted(e, s) ==
    IF s = <<>> THEN <<e>>
    ELSE IF PairLeq(s[1].k, e.k)
         THEN <<s[1]>> \o InsertSorted(e, Tail(s))
         ELSE <<e>> \o s

RECURSIVE SortEntries(_)
SortEntries(es) ==
    IF es = <<>> THEN <<>>
    ELSE InsertSorted(es[Len(es)], SortEntries(SubSeq(es, 1, Len(es) - 1)))

\* xs sorted by keys (keys[i] the key of xs[i]), ties in input order
StableSort(xs, keys) ==
    LET es == SortEntries([i \in 1..Len(xs) |-> [k |-> keys[i], x |-> xs[i]]])
    IN  [i \in 1..Len(xs) |-> es[i].x]

\* 2 * statistics.median(hs), hs non-empty: the middle value, or the mean
\* of the two middle values
Median2(hs) ==
    LET s == StableSort(hs, [i \in 1..Len(hs) |-> <<0, hs[i]>>])
        n == Len(s)
    IN  IF n % 2 = 1 THEN 2 * s[(n + 1) \div 2]
        ELSE s[n \div 2] + s[n \div 2 + 1]

\* ------------------------------------------------- convert_image_to_pdf_coords
\* The function as written: every coordinate is multiplied by
\* page_width / image_w or page_height / image_h.
convert_image_to_pdf_coords(image_x, image_y, image_w, image_h, page_width, page_height) ==
    Box(image_x * (page_width \div image_w),
        image_y * (page_height \div image_h),
        (image_x + image_w) * (page_width \div image_w),
        (image_y + image_h) * (page_height \div image_h))

\* ------------------------------------------------------ calculate_text_heights
\* twice the median of the positive heights; 2 * 1.0 when there is none
calculate_text_heights(text_blocks) ==
    LET all == [i \in 1..Len(text_blocks) |->
                   text_blocks[i].bbox[4] - text_blocks[i].bbox[2]]
        heights == SelectSeq(all, LAMBDA h : h > 0)
    IN  IF heights = <<>> THEN 2 ELSE Median2(heights)

\* ----------------------------------------------------------- group_text_blocks
\* int(block['bbox'][1] / vertical_tolerance), vertical_tolerance = m * 0.25
y_group(block, m2) == Trunc(8 * block.bbox[2], m2)

\* the sort key of line 74
YSortKey(block, m2) == <<block.page, y_group(block, m2)>>

\* y_sorted_blocks, as indices into text_blocks
y_sorted_blocks(blk, m2) ==
    StableSort([i \in 1..Len(blk) |-> i],
               [i \in 1..Len(blk) |-> YSortKey(blk[i], m2)])

\* current_line.sort(key=lambda x: x['bbox'][0])
SortByLeft(blk, current_line) ==
    StableSort(current_line,
               [i \in 1..Len(current_line) |-> <<0, blk[current_line[i]].bbox[1]>>])

\* lines 92-94: the last bucket group is flushed after the loop
FlushLineGroup(blk, line_groups, current_line) ==
    IF current_line # <<>>
    THEN Append(line_groups, SortByLeft(blk, current_line))
    ELSE line_groups

\* lines 76-94.  ys: the blocks still to visit; current_y_group is <<>>
\* for None and <<g>> for the bucket g.
RECURSIVE ScanY(_, _, _, _, _, _)
ScanY(blk, ys, m2, line_groups, current_line, current_y_group) ==
    IF ys = <<>> THEN FlushLineGroup(blk, line_groups, current_line)
    ELSE
      LET block == ys[1]
          g     == y_group(blk[block], m2)
      IN  IF current_y_group = <<>>
          THEN ScanY(blk, Tail(ys), m2, line_groups,
                     Append(current_line, block), <<g>>)
          ELSE IF /\ blk[block].page = blk[current_line[Len(current_line)]].page
                  /\ g = current_y_group[1]
          THEN ScanY(blk, Tail(ys), m2, line_groups,
                     Append(current_line, block), current_y_group)
          ELSE ScanY(blk, Tail(ys), m2,
                     Append(line_groups, SortByLeft(blk, current_line)),
                     <<block>>, <<g>>)

\* mutant: the comparison of line 109 written with < instead of <=
CloseEnough_Strict(block, last_block, m2) ==
    20 * block.bbox[1] < 20 * last_block.bbox[3] + 3 * m2

\* line 109: block['bbox'][0] <= last_block['bbox'][2] + horizontal_tolerance,
\* horizontal_tolerance = m * 0.3
CloseEnough(block, last_block, m2) ==
    20 * block.bbox[1] <= 20 * last_block.bbox[3] + 3 * m2

\* lines 111-113: last_block is changed in place
MergeInto(last_block, block) ==
    [last_block EXCEPT
        !.text = @ \o block.text,
        !.bbox = Box(@[1], @[2], Max2(@[3], block.bbox[3]),
                     Max2(@[4], block.bbox[4]))]

\* lines 116-126 and 130-140: the Line built from current_group.  toks is
\* history: the blocks that were merged into it, in scan order.
MakeLine(blk, current_group, toks) ==
    LET n == Len(current_group)
        co(k) == [i \in 1..n |-> blk[current_group[i]].bbox[k]]
    IN  [id   |-> blk[current_group[1]].id,
         text |-> Concat([i \in 1..n |-> blk[current_group[i]].text]),
         bbox |-> Box(MinOf(co(1)), MinOf(co(2)), MaxOf(co(3)), MaxOf(co(4))),
         page |-> blk[current_group[1]].page,
         toks |-> toks]

\* lines 129-140: the last group of a bucket is flushed after the loop
FlushGroup(blk, merged_line, current_group, toks) ==
    IF current_group # <<>>
    THEN Append(merged_line, MakeLine(blk, current_group, toks))
    ELSE merged_line

\* lines 99-140 for one bucket group `line`: the blocks after the scan and
\* the Lines of the group
RECURSIVE MergeScan(_, _, _, _, _, _)
MergeScan(blk, line, m2, merged_line, current_group, toks) ==
    IF line = <<>>
    THEN [blk |-> blk,
          merged_line |-> FlushGroup(blk, merged_line, current_group, toks)]
    ELSE
      LET block == line[1]
      IN  IF current_group = <<>>
          THEN MergeScan(blk, Tail(line), m2, merged_line, <<block>>, <<block>>)
          ELSE
            LET last_block == current_group[Len(current_group)]
            IN  IF CloseEnough(blk[block], blk[last_block], m2)
                THEN MergeScan(
                       [blk EXCEPT ![last_block] = MergeInto(@, blk[block])],
                       Tail(line), m2, merged_line, current_group,
                       Append(toks, block))
                ELSE MergeScan(
                       blk, Tail(line), m2,
                       Append(merged_line, MakeLine(blk, current_group, toks)),
                       <<block>>, <<block>>)

\* lines 97-142: every bucket group in turn; final_groups collects the Lines
RECURSIVE MergeGroups(_, _, _, _)
MergeGroups(blk, line_groups, m2, final_groups) ==
    IF line_groups = <<>>
    THEN [blk |-> blk, lines |-> final_groups]
    ELSE LET r == MergeScan(blk, line_groups[1], m2, <<>>, <<>>, <<>>)
         IN  MergeGroups(r.blk, Tail(line_groups), m2,
                         final_groups \o r.merged_line)

\* the bucket groups of lines 69-94
LineGroups(text_blocks) ==
    LET m2 == calculate_text_heights(text_blocks)
    IN  ScanY(text_blocks, y_sorted_blocks(text_blocks, m2), m2, <<>>, <<>>, <<>>)

\* group_text_blocks(text_blocks): .lines is the returned list, .blk the
\* argument's dicts as the call leaves them
group_text_blocks(text_blocks) ==
    MergeGroups(text_blocks, LineGroups(text_blocks),
                calculate_text_heights(text_blocks), <<>>)

\* ------------------------------------------------------------ group_paragraphs
\* mutant: the sort of line 165 keyed on the top alone, the page forgotten
ParaSortKey_NoPage(line) == <<0, line.bbox[2]>>

\* line 165: the sort key
ParaSortKey(line) == <<line.page, line.bbox[2]>>

\* mutant: the comparison of line 176 written with < instead of <=
SameParagraph_Strict(line, last_line, ml2) ==
    /\ line.page = last_line.page
    /\ 4 * (line.bbox[2] - last_line.bbox[4]) < 3 * ml2

\* lines 173-176: gap <= median_line_height * 1.5, on the same page
SameParagraph(line, last_line, ml2) ==
    /\ line.page = last_line.page
    /\ 4 * (line.bbox[2] - last_line.bbox[4]) <= 3 * ml2

\* mutant: lines 182-183 left out, the last paragraph is never appended
FlushParagraph_Dropped(paragraphs, current_paragraph) == paragraphs

\* lines 182-183
FlushParagraph(paragraphs, current_paragraph) ==
    IF current_paragraph # <<>>
    THEN Append(paragraphs, current_paragraph)
    ELSE paragraphs

\* lines 167-183
RECURSIVE ParaScan(_, _, _, _)
ParaScan(sorted_lines, ml2, paragraphs, current_paragraph) ==
    IF sorted_lines = <<>>
    THEN FlushParagraph(paragraphs, current_paragraph)
    ELSE
      LET line == sorted_lines[1]
      IN  IF current_paragraph = <<>>
          THEN ParaScan(Tail(sorted_lines), ml2, paragraphs, <<line>>)
          ELSE IF SameParagraph(line,
                                current_paragraph[Len(current_paragraph)], ml2)
          THEN ParaScan(Tail(sorted_lines), ml2, paragraphs,
                        Append(current_paragraph, line))
          ELSE ParaScan(Tail(sorted_lines), ml2,
                        Append(paragraphs, current_paragraph), <<line>>)

group_paragraphs(lines) ==
    IF lines = <<>> THEN <<>>
    ELSE
      LET line_heights == [i \in 1..Len(lines) |->
                              lines[i].bbox[4] - lines[i].bbox[2]]
          ml2 == Median2(line_heights)
          sorted_lines ==
              StableSort(lines, [i \in 1..Len(lines) |-> ParaSortKey(lines[i])])
      IN  ParaScan(sorted_lines, ml2, <<>>, <<>>)

\* ------------------------------------------------- create_paragraph_bbox, format
create_paragraph_bbox(lines) ==
    LET co(k) == [i \in 1..Len(lines) |-> lines[i].bbox[k]]
    IN  Box(MinOf(co(1)), MinOf(co(2)), MaxOf(co(3)), MaxOf(co(4)))

\* lines 266-277: one ExtractionResult per paragraph (its id is a fresh
\* uuid4, which carries no information and is left out)
FormatParagraphs(paragraphs) ==
    [i \in 1..Len(paragraphs) |->
        [text |-> Concat([j \in 1..Len(paragraphs[i]) |-> paragraphs[i][j].text]),
         bbox |-> create_paragraph_bbox(paragraphs[i]),
         page |-> paragraphs[i][1].page]]

\* lines 260-277 as one function of the token list
Pipeline(tokens) ==
    FormatParagraphs(group_paragraphs(group_text_blocks(tokens).lines))

\* ------------------------------------------------------------------ actions
Init ==
    /\ pc = "extract"
    /\ page_num = 0
    /\ page_src = "none"
    /\ extracted_data = <<>>
    /\ orig = <<>>
    /\ ocr_rows = <<>>
    /\ line_grouped_blocks = <<>>
    /\ paragraph_blocks = <<>>
    /\ formatted_data = <<>>

\* the dict appended at lines 225-230 and 253-258
Token(text, bbox) ==
    [id |-> Len(extracted_data) + 1, text |-> text, bbox |-> bbox,
     page |-> page_num]

\* lines 222-230: one more word of a page that has a text layer
AppendWord(w) ==
    /\ pc = "extract"
    /\ page_src \in {"none", "words"}
    /\ Len(extracted_data) < MaxTokens
    /\ page_src' = "words"
    /\ extracted_data' = Append(extracted_data, Token(w.text, w.bbox))
    /\ orig' = Append(orig, Token(w.text, w.bbox))
    /\ ocr_rows' = Append(ocr_rows, <<>>)
    /\ UNCHANGED <<pc, page_num, line_grouped_blocks, paragraph_blocks,
                   formatted_data>>

\* lines 231-258: one more OCR row of a page without a text layer
AppendOcrWord(o) ==
    /\ pc = "extract"
    /\ page_src \in {"none", "ocr"}
    /\ Len(extracted_data) < MaxTokens
    /\ page_src' = "ocr"
    /\ LET bbox == convert_image_to_pdf_coords(o.left, o.top, o.width, o.height,
                                               PageRect.width, PageRect.height)
       IN  /\ extracted_data' = Append(extracted_data, Token(o.text, bbox))
           /\ orig' = Append(orig, Token(o.text, bbox))
    /\ ocr_rows' = Append(ocr_rows, <<o>>)
    /\ UNCHANGED <<pc, page_num, line_grouped_blocks, paragraph_blocks,
                   formatted_data>>

\* line 214: the loop moves to the next page
NextPage ==
    /\ pc = "extract"
    /\ page_num + 1 < MaxPages
    /\ page_num' = page_num + 1
    /\ page_src' = "none"
    /\ UNCHANGED <<pc, extracted_data, orig, ocr_rows, line_grouped_blocks,
                   paragraph_blocks, formatted_data>>

\* line 261, after the last page: group_text_blocks(extracted_data)
GroupLines ==
    /\ pc = "extract"
    /\ LET r == group_text_blocks(extracted_data)
       IN  /\ line_grouped_blocks' = r.lines
           /\ extracted_data' = r.blk
    /\ pc' = "lines"
    /\ UNCHANGED <<page_num, page_src, orig, ocr_rows, paragraph_blocks,
                   formatted_data>>

\* line 264: group_paragraphs(line_grouped_blocks)
GroupParagraphs ==
    /\ pc = "lines"
    /\ paragraph_blocks' = group_paragraphs(line_grouped_blocks)
    /\ pc' = "paragraphs"
    /\ UNCHANGED <<page_num, page_src, extracted_data, orig, ocr_rows,
                   line_grouped_blocks, formatted_data>>

\* lines 266-277 and 285: the response is built and returned
Format ==
    /\ pc = "paragraphs"
    /\ formatted_data' = FormatParagraphs(paragraph_blocks)
    /\ pc' = "done"
    /\ UNCHANGED <<page_num, page_src, extracted_data, orig, ocr_rows,
                   line_grouped_blocks, paragraph_blocks>>

Next ==
    \/ \E w \in PageWords : AppendWord(w)
    \/ \E o \in OcrWords : AppendOcrWord(o)
    \/ NextPage
    \/ GroupLines
    \/ GroupParagraphs
    \/ Format

Spec == Init /\ [][Next]_vars

\* ------------------------------------------------------- vocabulary of the claims
\* the (text, bbox, page) of a Line or a paragraph record
Rec(r) == [text |-> r.text, bbox |-> r.bbox, page |-> r.page]
Recs(rs) == [i \in 1..Len(rs) |-> Rec(rs[i])]

OnPage(rs, p) == SelectSeq(rs, LAMBDA r : r.page = p)

\* (min left, min top, max right, max bottom) of a non-empty list of boxes
UnionBox(boxes) ==
    LET co(k) == [i \in 1..Len(boxes) |-> boxes[i][k]]
    IN  Box(MinOf(co(1)), MinOf(co(2)), MaxOf(co(3)), MaxOf(co(4)))

\* the multiset of the elements of a sequence
BagOf(s) ==
    [w \in {s[i] : i \in DOMAIN s} |-> Cardinality({i \in DOMAIN s : s[i] = w})]

Elems(s) == {s[i] : i \in DOMAIN s}

LinesDone == pc \in {"lines", "paragraphs", "done"}
ParagraphsDone == pc \in {"paragraphs", "done"}

\* twice the median token height and twice the median Line height
TokenM2 == calculate_text_heights(orig)
LineM2 ==
    Median2([i \in 1..Len(line_grouped_blocks) |->
                line_grouped_blocks[i].bbox[4] - line_grouped_blocks[i].bbox[2]])

\* the tokens of Line L as they were given, in the order they were merged
Members(L) == [k \in 1..Len(L.toks) |-> orig[L.toks[k]]]

\* max right over the first k tokens of Line L
Rightmost(L, k) == MaxOf([j \in 1..k |-> orig[L.toks[j]].bbox[3]])

\* floor(n / d) for d > 0
Floor(n, d) == n \div d

\* floor(top / (0.25 * median token height))
FloorBucket(t) == Floor(8 * t.bbox[2], TokenM2)

\* tokens i and j were put into the same (page, bucket) group
SameGroup(i, j) ==
    \E g \in Elems(LineGroups(orig)) : i \in Elems(g) /\ j \in Elems(g)

\* --------------------------------------------------------------------- claims

\* C1: for every two orderings of the same tokens the pipeline returns the
\* same sequence of paragraph (text, bbox, page) records.
C1_OrderIndependent ==
    pc = "done" =>
        \A f \in Permutations(1..Len(orig)) :
            Pipeline([i \in 1..Len(orig) |-> orig[f[i]]]) = formatted_data

\* C2: every Line has bbox = (min left, min top, max right, max bottom) over
\* the tokens merged into it and text = their texts joined left to right;
\* every Paragraph has the union bbox of its Lines.
C2_AggregationContract ==
    pc = "done" =>
        /\ \A i \in DOMAIN line_grouped_blocks :
              LET L == line_grouped_blocks[i]
                  ms == Members(L)
              IN  /\ L.bbox = UnionBox([k \in 1..Len(ms) |-> ms[k].bbox])
                  /\ L.text = Concat([k \in 1..Len(ms) |-> ms[k].text])
                  /\ \A k \in 1..(Len(ms) - 1) : ms[k].bbox[1] <= ms[k + 1].bbox[1]
        /\ \A i \in DOMAIN paragraph_blocks :
              formatted_data[i].bbox =
                  UnionBox([k \in 1..Len(paragraph_blocks[i]) |->
                               paragraph_blocks[i][k].bbox])

\* C3: scanning a (page, bucket) group left to right, a token joins the
\* current Line iff its left <= (max right of the tokens merged so far) +
\* 0.3 * median token height; equality merges, anything greater starts a
\* new Line.
C3_LineMergeRule ==
    LinesDone =>
        LET m2 == TokenM2
            groups == LineGroups(orig)
            Joins(left, rightmost) == 20 * left <= 20 * rightmost + 3 * m2
            OneGroup(i, j) ==
                \E n \in DOMAIN groups :
                    i \in Elems(groups[n]) /\ j \in Elems(groups[n])
        IN  /\ Concat([i \in DOMAIN line_grouped_blocks |->
                          line_grouped_blocks[i].toks]) = Concat(groups)
            /\ \A i \in DOMAIN line_grouped_blocks :
                  LET L == line_grouped_blocks[i]
                  IN  \A k \in 2..Len(L.toks) :
                          Joins(orig[L.toks[k]].bbox[1], Rightmost(L, k - 1))
            /\ \A i \in 1..(Len(line_grouped_blocks) - 1) :
                  LET L == line_grouped_blocks[i]
                      N == line_grouped_blocks[i + 1]
                  IN  OneGroup(L.toks[1], N.toks[1]) =>
                          ~Joins(orig[N.toks[1]].bbox[1],
                                 Rightmost(L, Len(L.toks)))

\* a token was merged whose left is exactly rightmost + tolerance
C3_Witness ==
    /\ pc = "lines"
    /\ \E i \in DOMAIN line_grouped_blocks :
          LET L == line_grouped_blocks[i]
          IN  \E k \in 2..Len(L.toks) :
                  20 * orig[L.toks[k]].bbox[1]
                      = 20 * Rightmost(L, k - 1) + 3 * TokenM2

\* C4: with the Lines sorted by (page, top), a Line joins the current
\* paragraph iff it is on the page of the paragraph's last Line and
\* top - last.bottom <= 1.5 * median Line height; equality merges; every
\* Line is in exactly one paragraph, in sorted order.
C4_ParagraphGapRule ==
    (ParagraphsDone /\ line_grouped_blocks # <<>>) =>
        LET flat == Concat(paragraph_blocks)
            Joins(line, last) ==
                /\ line.page = last.page
                /\ 4 * (line.bbox[2] - last.bbox[4]) <= 3 * LineM2
        IN  /\ Len(flat) = Len(line_grouped_blocks)
            /\ Elems(flat) = Elems(line_grouped_blocks)
            /\ \A i \in 1..(Len(flat) - 1) :
                  PairLeq(<<flat[i].page, flat[i].bbox[2]>>,
                          <<flat[i + 1].page, flat[i + 1].bbox[2]>>)
            /\ \A i \in DOMAIN paragraph_blocks :
                  LET P == paragraph_blocks[i]
                  IN  /\ P # <<>>
                      /\ \A k \in 2..Len(P) : Joins(P[k], P[k - 1])
            /\ \A i \in 1..(Len(paragraph_blocks) - 1) :
                  LET P == paragraph_blocks[i]
                      Q == paragraph_blocks[i + 1]
                  IN  ~Joins(Q[1], P[Len(P)])

\* a Line was appended at a gap of exactly 1.5 * median Line height
C4_Witness ==
    /\ pc = "paragraphs"
    /\ \E i \in DOMAIN paragraph_blocks :
          LET P == paragraph_blocks[i]
          IN  \E k \in 2..Len(P) :
                  /\ P[k].page = P[k - 1].page
                  /\ 4 * (P[k].bbox[2] - P[k - 1].bbox[4]) = 3 * LineM2

\* C5: consecutive output paragraphs are in non-decreasing (page, bbox top)
\* order.
C5_OutputOrdered ==
    pc = "done" =>
        \A i \in 1..(Len(formatted_data) - 1) :
            PairLeq(<<formatted_data[i].page, formatted_data[i].bbox[2]>>,
                    <<formatted_data[i + 1].page, formatted_data[i + 1].bbox[2]>>)

\* two paragraphs of one page came out although their tokens went in with
\* the lower one first
C5_Witness ==
    /\ pc = "done"
    /\ Len(formatted_data) >= 2
    /\ formatted_data[1].page = formatted_data[2].page
    /\ formatted_data[1].bbox[2] < formatted_data[2].bbox[2]
    /\ \E i, j \in DOMAIN orig :
          /\ i < j
          /\ orig[i].page = orig[j].page
          /\ orig[i].bbox = formatted_data[2].bbox
          /\ orig[j].bbox = formatted_data[1].bbox

\* C6: the bbox of an OCR token is the pixel box (x, y, x+w, y+h) scaled by
\* page size / image size.
C6_OcrScaledByImage ==
    \A i \in DOMAIN orig :
        ocr_rows[i] # <<>> =>
            LET o == ocr_rows[i][1]
                b == orig[i].bbox
            IN  /\ b[1] * PixSize.width  = o.left * PageRect.width
                /\ b[2] * PixSize.height = o.top * PageRect.height
                /\ b[3] * PixSize.width  = (o.left + o.width) * PageRect.width
                /\ b[4] * PixSize.height = (o.top + o.height) * PageRect.height

\* C7: the Lines and paragraphs of page p are those the pipeline produces
\* from the tokens of page p alone.
C7_PageIndependent ==
    pc = "done" =>
        \A p \in 0..(MaxPages - 1) :
            /\ OnPage(formatted_data, p) = Pipeline(OnPage(orig, p))
            /\ OnPage(Recs(line_grouped_blocks), p)
                   = Recs(group_text_blocks(OnPage(orig, p)).lines)

\* C8: group_text_blocks leaves the token records as they were, and a
\* second call on the same list returns the same Lines.
C8_TokensUnchanged ==
    LinesDone =>
        /\ extracted_data = orig
        /\ Recs(group_text_blocks(extracted_data).lines) = Recs(line_grouped_blocks)

\* C9: the bucket of every token is floor(top / (0.25 * median height)); two
\* tokens of a page are in one bucket group iff their floors agree; tokens
\* of different floor-buckets are never in one Line.
C9_FloorBuckets ==
    LinesDone =>
        /\ \A i \in DOMAIN orig : y_group(orig[i], TokenM2) = FloorBucket(orig[i])
        /\ \A i, j \in DOMAIN orig :
              orig[i].page = orig[j].page =>
                  (SameGroup(i, j) <=> FloorBucket(orig[i]) = FloorBucket(orig[j]))
        /\ \A n \in DOMAIN line_grouped_blocks :
              \A i, j \in Elems(line_grouped_blocks[n].toks) :
                  FloorBucket(orig[i]) = FloorBucket(orig[j])

\* C10: every token is in exactly one Line and every Line in exactly one
\* paragraph, Lines and paragraphs hold tokens of one page only, and the
\* words of the output are, as a multiset, the words of the input.
C10_Partition ==
    pc = "done" =>
        LET toks == Concat([i \in DOMAIN line_grouped_blocks |->
                               line_grouped_blocks[i].toks])
            flat == Concat(paragraph_blocks)
            words(rs) == Concat([i \in DOMAIN rs |-> rs[i].text])
        IN  /\ Len(toks) = Len(orig)
            /\ Elems(toks) = DOMAIN orig
            /\ \A i \in DOMAIN line_grouped_blocks :
                  LET L == line_grouped_blocks[i]
                  IN  \A k \in Elems(L.toks) : orig[k].page = L.page
            /\ BagOf(words(line_grouped_blocks)) = BagOf(words(orig))
            /\ Len(flat) = Len(line_grouped_blocks)
            /\ Elems(flat) = Elems(line_grouped_blocks)
            /\ Len(formatted_data) = Len(paragraph_blocks)
            /\ \A i \in DOMAIN paragraph_blocks :
                  \A k \in DOMAIN paragraph_blocks[i] :
                      paragraph_blocks[i][k].page = formatted_data[i].page
            /\ BagOf(words(formatted_data)) = BagOf(words(orig))

\* three tokens went through: one Line holds two of them, and there are at
\* least two paragraphs
C10_Witness ==
    /\ pc = "done"
    /\ Len(orig) >= 3
    /\ \E i \in DOMAIN line_grouped_blocks : Len(line_grouped_blocks[i].toks) >= 2
    /\ Len(formatted_data) >= 2

=============================================================================
